---- MODULE Spec2Model ----
(***************************************************************************)
(* rustflix: a file-backed record manager (users, videos, view counters).  *)
(* Every invocation of the tool is one process that loads a collection     *)
(* file, matches a query, optionally prompts, mutates the in-memory Vec    *)
(* and rewrites the whole file (File::create, then bincode::serialize_into)*)
(***************************************************************************)
EXTENDS Integers, Sequences, FiniteSets, TLC

(* ------------------------------ bounds --------------------------------- *)

\* cap on the number of records held by the collection files together
MaxRecords == 2

\* the largest value of a views counter in the model; it stands for
\* std::u32::MAX, which TLC's 32-bit signed integers cannot hold
MaxViews == 3

\* the number of rejected answers a caller of utilities::confirm remembers
MaxTries == 2

\* the longest user collection a users.bc written by hand holds
MaxLen == 3

(* ----------------------------- data domain ----------------------------- *)

\* a sample of the u32 id range 0..=u32::MAX that generate_valid_id draws from
Ids == {1, 2}
Names == {"a", "b"}
Emails == {"x", "y"}
ViewVals == {0, 1, MaxViews}
\* AddViews.number_to_add (default_value_t = 1)
AddVals == {1, MaxViews}

\* Option<T>: None is the empty set, Some(v) is {v}
None == {}
Some(v) == {v}
Opt(S) == {None} \cup {Some(v) : v \in S}

\* the three collection files the handlers name
UsersPath == "users.bc"
HomeVideosPath == "HOME/.rustflix/videos.bc"
CwdVideosPath == "videos.bc"
Paths == {UsersPath, HomeVideosPath, CwdVideosPath}

(* --------------------------- text handling ----------------------------- *)

\* a line is a sequence of characters; read_line keeps the trailing newline
Lines ==
    { <<"y", "\n">>, <<"Y", "E", "S", "\n">>, <<"\n">>, <<>>,
      <<"n", "\n">>, <<" ", "N", "o", "\n">>, <<"x", "\n">> }

\* char::to_lowercase on the letters that occur in Lines
LowerChar(c) ==
    CASE c = "Y" -> "y"
      [] c = "E" -> "e"
      [] c = "S" -> "s"
      [] c = "N" -> "n"
      [] c = "O" -> "o"
      [] OTHER -> c

\* str::to_lowercase
to_lowercase(s) == [i \in 1..Len(s) |-> LowerChar(s[i])]

\* char::is_whitespace on the characters that occur in Lines
IsSpace(c) == c \in {" ", "\n", "\t", "\r"}

RECURSIVE trim_start(_)
trim_start(s) ==
    IF s # <<>> /\ IsSpace(Head(s)) THEN trim_start(Tail(s)) ELSE s

RECURSIVE trim_end(_)
trim_end(s) ==
    IF s # <<>> /\ IsSpace(s[Len(s)]) THEN trim_end(SubSeq(s, 1, Len(s) - 1)) ELSE s

\* str::trim
trim(s) == trim_end(trim_start(s))

\* a confirm that matches the trimmed buffer without to_lowercase
confirm_case_sensitive(input, default) ==
    LET t == trim(input) IN
    IF t \in {<<"y">>, <<"y", "e", "s">>} THEN "true"
    ELSE IF t \in {<<"n">>, <<"n", "o">>} THEN "false"
    ELSE IF t = <<>> THEN
        (IF default = Some(TRUE) THEN "true"
         ELSE IF default = Some(FALSE) THEN "false"
         ELSE "retry")
    ELSE "retry"

\* one pass of the loop body of utilities::confirm on the buffer `input`:
\* "true" / "false" are the returned values, "retry" loops again
confirm(input, default) ==
    LET t == trim(to_lowercase(input)) IN
    IF t \in {<<"y">>, <<"y", "e", "s">>} THEN "true"
    ELSE IF t \in {<<"n">>, <<"n", "o">>} THEN "false"
    ELSE IF t = <<>> THEN
        (IF default = Some(TRUE) THEN "true"
         ELSE IF default = Some(FALSE) THEN "false"
         ELSE "retry")
    ELSE "retry"

\* the inline loop without the `return` of its cancelling branch
delete_user_prompt_no_return(input) ==
    LET t == to_lowercase(trim(input)) IN
    IF t # <<>> /\ t # <<"y">> /\ t # <<"y", "e", "s">>
          /\ t # <<"n">> /\ t # <<"n", "o">>
    THEN "retry" ELSE "true"

\* the inline loop without its empty-input branch
delete_user_prompt_no_default(input) ==
    LET t == to_lowercase(trim(input)) IN
    IF t = <<"n">> \/ t = <<"n", "o">> THEN "false"
    ELSE IF t # <<"y">> /\ t # <<"y", "e", "s">> THEN "retry"
    ELSE "true"

\* one pass of the inline prompt loop of handle_delete_user on the buffer
\* `input`: "false" is the cancelling return, "true" the break that goes on
\* to the removal, "retry" the continue
delete_user_prompt(input) ==
    LET t == to_lowercase(trim(input)) IN
    IF t = <<"n">> \/ t = <<"n", "o">> THEN "false"
    ELSE IF t = <<>> THEN "true"
    ELSE IF t # <<"y">> /\ t # <<"y", "e", "s">> THEN "retry"
    ELSE "true"

(* ------------------------------ records -------------------------------- *)

\* struct User { id: u32, name: String, email: String }
User == [id : Ids, name : Names, email : Emails]
\* struct Video { id: u32, name: String, views: u32 }
Video == [id : Ids, name : Names, views : ViewVals]

\* struct UserQuery { id, name, email : Option<_> }
UserQuery == [id : Opt(Ids), name : Opt(Names), email : Opt(Emails)]
\* struct VideoQuery { id, name : Option<_> }
VideoQuery == [id : Opt(Ids), name : Opt(Names)]

(* ---------------------------- persistence ------------------------------ *)

\* bincode::serialize_into(file, &users): the u64 length of the Vec, then
\* the fields of every record in declaration order
RECURSIVE serialize_users(_)
serialize_users(users) ==
    IF users = <<>> THEN <<>>
    ELSE <<Head(users).id, Head(users).name, Head(users).email>>
             \o serialize_users(Tail(users))

user_bytes(users) == <<Len(users)>> \o serialize_users(users)

RECURSIVE serialize_videos(_)
serialize_videos(videos) ==
    IF videos = <<>> THEN <<>>
    ELSE <<Head(videos).id, Head(videos).name, Head(videos).views>>
             \o serialize_videos(Tail(videos))

video_bytes(videos) == <<Len(videos)>> \o serialize_videos(videos)

\* a deserialize that reads email before name
deserialize_users_swapped(bytes) ==
    IF Len(bytes) = 0 \/ Len(bytes) < 1 + 3 * bytes[1]
    THEN [ok |-> FALSE, val |-> <<>>]
    ELSE [ok |-> TRUE,
          val |-> [i \in 1..bytes[1] |->
                     [id |-> bytes[3 * i - 1], name |-> bytes[3 * i + 1],
                      email |-> bytes[3 * i]]]]

\* bincode::deserialize_from(file): Err when the bytes end before the
\* announced number of records has been read
deserialize_users(bytes) ==
    IF Len(bytes) = 0 \/ Len(bytes) < 1 + 3 * bytes[1]
    THEN [ok |-> FALSE, val |-> <<>>]
    ELSE [ok |-> TRUE,
          val |-> [i \in 1..bytes[1] |->
                     [id |-> bytes[3 * i - 1], name |-> bytes[3 * i],
                      email |-> bytes[3 * i + 1]]]]

deserialize_videos(bytes) ==
    IF Len(bytes) = 0 \/ Len(bytes) < 1 + 3 * bytes[1]
    THEN [ok |-> FALSE, val |-> <<>>]
    ELSE [ok |-> TRUE,
          val |-> [i \in 1..bytes[1] |->
                     [id |-> bytes[3 * i - 1], name |-> bytes[3 * i],
                      views |-> bytes[3 * i + 1]]]]

\* a file of the file system: absent, or present with its content
NoFile == [exists |-> FALSE, bytes |-> <<>>]
FileOf(bytes) == [exists |-> TRUE, bytes |-> bytes]

\* a load that takes a file it cannot parse for an empty collection
load_users_lenient(file) ==
    IF file.exists /\ deserialize_users(file.bytes).ok
    THEN deserialize_users(file.bytes)
    ELSE [ok |-> TRUE, val |-> <<>>]

\* `if path.exists() { deserialize_from(File::open(path).unwrap()).unwrap() }
\*  else { vec![] }`: ok = FALSE is the panic of the second unwrap
load_users(file) ==
    IF file.exists THEN deserialize_users(file.bytes)
    ELSE [ok |-> TRUE, val |-> <<>>]

load_videos(file) ==
    IF file.exists THEN deserialize_videos(file.bytes)
    ELSE [ok |-> TRUE, val |-> <<>>]

(* --------------------------- id and email lookup ------------------------ *)

\* a has_id that never finds the id
has_id_never(records, id) == FALSE

\* has_id of both modules: a scan for a record with the given id
has_id(records, id) == \E i \in 1..Len(records) : records[i].id = id

\* a has_email that never finds the email
has_email_never(users, email) == FALSE

has_email(users, email) == \E i \in 1..Len(users) : users[i].email = email

(* ------------------------------ matchers -------------------------------- *)

\* the accumulators of find_user / find_video before the scan: found holds
\* the references pushed, as indices into the Vec
NoMatches == [found |-> <<>>, id |-> 0, name |-> 0, email |-> 0]

\* the loop of find_user without its `continue`s: every predicate that
\* matches pushes the record and bumps its counter
RECURSIVE scan_users_double(_, _, _, _)
scan_users_double(users, query, i, acc) ==
    IF i > Len(users) THEN acc
    ELSE LET a1 == IF query.id # None /\ users[i].id \in query.id
                   THEN [acc EXCEPT !.found = Append(@, i), !.id = @ + 1]
                   ELSE acc
             a2 == IF query.name # None /\ users[i].name \in query.name
                   THEN [a1 EXCEPT !.found = Append(@, i), !.name = @ + 1]
                   ELSE a1
             a3 == IF query.email # None /\ users[i].email \in query.email
                   THEN [a2 EXCEPT !.found = Append(@, i), !.email = @ + 1]
                   ELSE a2
         IN  scan_users_double(users, query, i + 1, a3)

\* the `for user in users` loop of find_user from position i on: the first
\* present predicate that matches pushes the record, bumps its counter and
\* continues with the next record
RECURSIVE scan_users(_, _, _, _)
scan_users(users, query, i, acc) ==
    IF i > Len(users) THEN acc
    ELSE IF query.id # None /\ users[i].id \in query.id
    THEN scan_users(users, query, i + 1,
                    [acc EXCEPT !.found = Append(@, i), !.id = @ + 1])
    ELSE IF query.name # None /\ users[i].name \in query.name
    THEN scan_users(users, query, i + 1,
                    [acc EXCEPT !.found = Append(@, i), !.name = @ + 1])
    ELSE IF query.email # None /\ users[i].email \in query.email
    THEN scan_users(users, query, i + 1,
                    [acc EXCEPT !.found = Append(@, i), !.email = @ + 1])
    ELSE scan_users(users, query, i + 1, acc)

\* the `for video in videos` loop of find_video from position i on
RECURSIVE scan_videos(_, _, _, _)
scan_videos(videos, query, i, acc) ==
    IF i > Len(videos) THEN acc
    ELSE IF query.id # None /\ videos[i].id \in query.id
    THEN scan_videos(videos, query, i + 1,
                     [acc EXCEPT !.found = Append(@, i), !.id = @ + 1])
    ELSE IF query.name # None /\ videos[i].name \in query.name
    THEN scan_videos(videos, query, i + 1,
                     [acc EXCEPT !.found = Append(@, i), !.name = @ + 1])
    ELSE scan_videos(videos, query, i + 1, acc)

\* the Result the single-target matchers return; ref is the reference
\* found[0] as an index into the Vec (0 when the Result is an Err), and the
\* counters are those of MatchedQueries (0 unless the tag is Multiple)
NotFound == [tag |-> "NotFound", ref |-> 0, id |-> 0, name |-> 0, email |-> 0]
Unresolved == [tag |-> "None", ref |-> 0, id |-> 0, name |-> 0, email |-> 0]

\* a classify without the `found_users.len() > 1` check
classify_first(acc) ==
    IF Len(acc.found) = 0 THEN NotFound
    ELSE [tag |-> "Ok", ref |-> acc.found[1], id |-> 0, name |-> 0, email |-> 0]

classify(acc) ==
    IF Len(acc.found) = 0 THEN NotFound
    ELSE IF Len(acc.found) > 1
    THEN [tag |-> "Multiple", ref |-> 0,
          id |-> acc.id, name |-> acc.name, email |-> acc.email]
    ELSE [tag |-> "Ok", ref |-> acc.found[1], id |-> 0, name |-> 0, email |-> 0]

find_user(users, query) == classify(scan_users(users, query, 1, NoMatches))

find_video(videos, query) == classify(scan_videos(videos, query, 1, NoMatches))

\* a find_users whose loop has no `continue`s
find_users_double(users, query) ==
    LET found == scan_users_double(users, query, 1, NoMatches).found IN
    [ok |-> Len(found) > 0, val |-> [k \in 1..Len(found) |-> users[found[k]]]]

\* find_users / find_videos: the records pushed by the same scan, in order;
\* Err(NoUserFound) when there is none
find_users(users, query) ==
    LET found == scan_users(users, query, 1, NoMatches).found IN
    [ok |-> Len(found) > 0, val |-> [k \in 1..Len(found) |-> users[found[k]]]]

find_videos(videos, query) ==
    LET found == scan_videos(videos, query, 1, NoMatches).found IN
    [ok |-> Len(found) > 0, val |-> [k \in 1..Len(found) |-> videos[found[k]]]]

\* a position that compares the names only
position_by_name(records, record) ==
    IF \E i \in 1..Len(records) : records[i].name = record.name
    THEN CHOOSE i \in 1..Len(records) :
            /\ records[i].name = record.name
            /\ \A j \in 1..(i - 1) : records[j].name # record.name
    ELSE 0

\* `iter().position(|u| u == record)`: the first index holding an equal
\* record, 0 for None
position(records, record) ==
    IF \E i \in 1..Len(records) : records[i] = record
    THEN CHOOSE i \in 1..Len(records) :
            /\ records[i] = record
            /\ \A j \in 1..(i - 1) : records[j] # record
    ELSE 0

\* a remove that drops the last record, whatever the index
remove_last(records, index) ==
    [k \in 1..(Len(records) - 1) |-> records[k]]

\* Vec::remove(index)
remove(records, index) ==
    [k \in 1..(Len(records) - 1) |-> IF k < index THEN records[k] ELSE records[k + 1]]

(* ------------------------------- state ---------------------------------- *)

\* the invocations of the tool that may run
Procs == {"p1", "p2"}

VARIABLES
    fs,         \* the collection files: path -> NoFile or FileOf(bytes)
    configDir,  \* whether the directory $HOME/.rustflix exists
    live,       \* the processes the operator runs, a subset of Procs
    proc        \* per live process: its position in a handler and its locals

vars == <<fs, configDir, live, proc>>

NoQuery == [id |-> None, name |-> None, email |-> None]
NoArgs == [name |-> None, email |-> None, views |-> None, add |-> None]

\* a process that runs no handler
Idle ==
    [pc |-> "idle",         \* idle, found, genid, confirm, write, done, panicked
     op |-> "none",         \* the handler that runs
     path |-> UsersPath,    \* the file the handler's path resolves to
     query |-> NoQuery,     \* the query predicates, while they are read
     outcome |-> Unresolved,\* what find_user / find_video returned
     mem |-> <<>>,          \* the Vec loaded from the file, as mutated so far
     index |-> 0,           \* user_index / video_index, 0 before it is set
     new |-> NoArgs,        \* the new-value and create arguments read so far
     input |-> <<>>,        \* the prompt loop's buffer after the last read_line
     line |-> <<>>,         \* the line the last read_line took from stdin
     old |-> NoFile,        \* the file as it was when the handler loaded it
     read |-> FALSE,        \* whether the handler has loaded the file
     wrote |-> FALSE,       \* whether the handler has called File::create
     result |-> "none",     \* what the handler reported when it returned
     out |-> <<>>]          \* the records a list or show command printed

\* a handler that has loaded the file at path
Start(opname, path) ==
    [Idle EXCEPT !.op = opname, !.path = path, !.old = fs[path], !.read = TRUE]

\* a handler that returns before it touches the file at path
Refused(opname, path) ==
    [Idle EXCEPT !.pc = "done", !.op = opname, !.path = path, !.old = fs[path],
                 !.result = "no_query"]

\* a handler whose load, index lookup, addition or File::create panicked
Panicked(opname, path) ==
    [Idle EXCEPT !.pc = "panicked", !.op = opname, !.path = path,
                 !.old = fs[path], !.read = TRUE, !.result = "panic"]

\* the number of records a file announces in its length header
Announced(file) ==
    IF file.exists /\ Len(file.bytes) > 0 THEN file.bytes[1] ELSE 0

\* number of records the collection files announce together
RecordCount ==
    Announced(fs[UsersPath]) + Announced(fs[HomeVideosPath])
        + Announced(fs[CwdVideosPath])

\* every sampled id is in use
Full(records) == \A id \in Ids : has_id(records, id)

\* the model lets a collection grow only below the cap
CanCreate(records) == RecordCount < MaxRecords \/ Full(records)

Init ==
    /\ fs = [p \in Paths |-> NoFile]
    /\ configDir \in BOOLEAN
    /\ live = {"p1"}
    /\ proc = [self \in live |-> Idle]

(* --------------------------- saving a file ------------------------------ *)

\* File::create(path): creates or truncates the file; Err (and the unwrap
\* panics) when the directory of the path does not exist
CanCreateFile(path) == path # HomeVideosPath \/ configDir

\* what serialize_into writes for the handler's collection
BytesOf(p) ==
    IF p.path = UsersPath THEN user_bytes(p.mem) ELSE video_bytes(p.mem)

\* `let file = File::create(path).unwrap();` reached with the locals p
BeginSave(self, p) ==
    IF CanCreateFile(p.path)
    THEN /\ fs' = [fs EXCEPT ![p.path] = FileOf(<<>>)]
         /\ proc' = [proc EXCEPT ![self] = [p EXCEPT !.pc = "write", !.wrote = TRUE]]
    ELSE /\ fs' = fs
         /\ proc' = [proc EXCEPT ![self] = Panicked(p.op, p.path)]

\* the result a handler reports after its save
Reported(opname) ==
    CASE opname \in {"handle_create_user", "handle_create_video"} -> "created"
      [] opname \in {"handle_update_user", "handle_update_video"} -> "updated"
      [] opname \in {"handle_delete_user", "handle_delete_video"} -> "deleted"
      [] OTHER -> "added"

\* a save of a create that keeps the record another create has saved into
\* the same file in the meantime
Write_merged(self) ==
    /\ proc[self].pc = "write"
    /\ LET p == proc[self]
           others == {o \in live \ {self} :
                        /\ proc[o].pc = "done" /\ proc[o].wrote
                        /\ proc[o].path = p.path
                        /\ proc[o].result = "created"
                        /\ p.op \in {"handle_create_user", "handle_create_video"}}
           merged == IF others = {} THEN p.mem
                     ELSE LET o == CHOOSE o \in others : TRUE IN
                          p.mem \o <<proc[o].mem[Len(proc[o].mem)]>>
       IN  fs' = [fs EXCEPT ![p.path] = FileOf(BytesOf([p EXCEPT !.mem = merged]))]
    /\ proc' = [proc EXCEPT ![self].pc = "done",
                            ![self].result = Reported(proc[self].op)]
    /\ UNCHANGED <<configDir, live>>

\* `bincode::serialize_into(file, &records).unwrap();` and the return
Write(self) ==
    /\ proc[self].pc = "write"
    /\ fs' = [fs EXCEPT ![proc[self].path] = FileOf(BytesOf(proc[self]))]
    /\ proc' = [proc EXCEPT ![self].pc = "done",
                            ![self].result = Reported(proc[self].op)]
    /\ UNCHANGED <<configDir, live>>

\* the process is stopped while serialize_into writes: a proper prefix of
\* the bytes is in the file
Kill(self) ==
    /\ proc[self].pc = "write"
    /\ \E k \in 0..(Len(BytesOf(proc[self])) - 1) :
          fs' = [fs EXCEPT ![proc[self].path] =
                               FileOf(SubSeq(BytesOf(proc[self]), 1, k))]
    /\ proc' = [proc EXCEPT ![self] = Idle]
    /\ UNCHANGED <<configDir, live>>

\* the process has returned from main, or has panicked: it is gone
Exit(self) ==
    /\ proc[self].pc \in {"done", "panicked"}
    /\ proc' = [proc EXCEPT ![self] = Idle]
    /\ UNCHANGED <<fs, configDir, live>>

(* -------------------------------- create -------------------------------- *)

\* handle_create_user up to the call of generate_valid_id
handle_create_user(self, name, email) ==
    /\ proc[self].pc = "idle"
    /\ LET loaded == load_users(fs[UsersPath]) IN
       /\ CanCreate(loaded.val)
       /\ proc' = [proc EXCEPT ![self] =
            IF ~loaded.ok THEN Panicked("handle_create_user", UsersPath)
            ELSE IF has_email(loaded.val, email)
            THEN [Start("handle_create_user", UsersPath) EXCEPT
                    !.pc = "done", !.mem = loaded.val,
                    !.new = [NoArgs EXCEPT !.name = Some(name),
                                           !.email = Some(email)],
                    !.result = "duplicate_email"]
            ELSE [Start("handle_create_user", UsersPath) EXCEPT
                    !.pc = "genid", !.mem = loaded.val,
                    !.new = [NoArgs EXCEPT !.name = Some(name),
                                           !.email = Some(email)]]]
    /\ UNCHANGED <<fs, configDir, live>>

\* handle_create_video up to the call of generate_valid_id
handle_create_video(self, name) ==
    /\ proc[self].pc = "idle"
    /\ LET loaded == load_videos(fs[HomeVideosPath]) IN
       /\ CanCreate(loaded.val)
       /\ proc' = [proc EXCEPT ![self] =
            IF ~loaded.ok THEN Panicked("handle_create_video", HomeVideosPath)
            ELSE [Start("handle_create_video", HomeVideosPath) EXCEPT
                    !.pc = "genid", !.mem = loaded.val,
                    !.new = [NoArgs EXCEPT !.name = Some(name)]]]
    /\ UNCHANGED <<fs, configDir, live>>

\* the record a create handler builds around the generated id
NewRecord(p, id) ==
    IF p.op = "handle_create_user"
    THEN [id |-> id, name |-> CHOOSE n \in p.new.name : TRUE,
          email |-> CHOOSE e \in p.new.email : TRUE]
    ELSE [id |-> id, name |-> CHOOSE n \in p.new.name : TRUE, views |-> 0]

\* generate_valid_id: a draw `rng.gen_range(0..=u32::MAX)` that has_id
\* rejects, so that the while loop draws again
generate_valid_id_retry(self) ==
    /\ proc[self].pc = "genid"
    /\ \E id \in Ids : has_id(proc[self].mem, id)
    /\ UNCHANGED vars

\* a generate_valid_id that returns its first draw
generate_valid_id_first_draw(self) ==
    /\ proc[self].pc = "genid"
    /\ \E id \in Ids :
          BeginSave(self, [proc[self] EXCEPT
                             !.mem = Append(@, NewRecord(proc[self], id))])
    /\ UNCHANGED <<configDir, live>>

\* a generate_valid_id that gives up and returns an id in use once every
\* id is in use
generate_valid_id_gives_up(self) ==
    /\ proc[self].pc = "genid"
    /\ \E id \in Ids :
          /\ ~has_id(proc[self].mem, id) \/ Full(proc[self].mem)
          /\ BeginSave(self, [proc[self] EXCEPT
                                !.mem = Append(@, NewRecord(proc[self], id))])
    /\ UNCHANGED <<configDir, live>>

\* generate_valid_id: a draw that has_id accepts; the handler pushes the
\* record and opens the file for writing
generate_valid_id(self) ==
    /\ proc[self].pc = "genid"
    /\ \E id \in Ids :
          /\ ~has_id(proc[self].mem, id)
          /\ BeginSave(self, [proc[self] EXCEPT
                                !.mem = Append(@, NewRecord(proc[self], id))])
    /\ UNCHANGED <<configDir, live>>

(* ------------------------- single-target lookup ------------------------- *)

\* the queries a command line can give
UserQueries == UserQuery
VideoQueries == {q \in UserQuery : q.email = None}

\* the load and the find_user / find_video call of an update or delete
\* handler, with the return of its `if let Err(e)` branch
Resolve(opname, path, query) ==
    LET loaded == IF path = UsersPath THEN load_users(fs[path])
                  ELSE load_videos(fs[path])
        found == IF path = UsersPath THEN find_user(loaded.val, query)
                 ELSE find_video(loaded.val, query)
    IN  IF ~loaded.ok THEN Panicked(opname, path)
        ELSE IF found.tag = "Ok"
        THEN [Start(opname, path) EXCEPT
                !.pc = "found", !.query = query, !.outcome = found,
                !.mem = loaded.val]
        ELSE [Start(opname, path) EXCEPT
                !.pc = "done", !.query = query, !.outcome = found,
                !.mem = loaded.val,
                !.result = IF found.tag = "NotFound" THEN "not_found"
                           ELSE "ambiguous"]

\* a handler that checks for an empty query before it loads
ResolveChecked(opname, path, query) ==
    IF query = NoQuery THEN Refused(opname, path)
    ELSE Resolve(opname, path, query)

\* `let user = user.unwrap(); let user_index = users.iter().position(..)`
Located(p) == position(p.mem, p.mem[p.outcome.ref])

(* ------------------------------ user update ----------------------------- *)

\* a handle_update_user that opens the file for writing before it looks at
\* what find_user returned
handle_update_user_create_first(self, query) ==
    /\ proc[self].pc = "idle"
    /\ LET r == ResolveChecked("handle_update_user", UsersPath, query) IN
       IF r.outcome.tag \in {"NotFound", "Multiple"}
       THEN BeginSave(self, r)
       ELSE /\ proc' = [proc EXCEPT ![self] = r]
            /\ fs' = fs
    /\ UNCHANGED <<configDir, live>>

\* handle_update_user up to the unwrap of the found user
handle_update_user(self, query) ==
    /\ proc[self].pc = "idle"
    /\ proc' = [proc EXCEPT ![self] =
                  ResolveChecked("handle_update_user", UsersPath, query)]
    /\ UNCHANGED <<fs, configDir, live>>

\* an update that writes the new name into every user
update_user_fields_every(users, index, new_name, new_email) ==
    [i \in 1..Len(users) |->
        [id |-> users[i].id,
         name |-> IF new_name # None
                  THEN CHOOSE n \in new_name : TRUE ELSE users[i].name,
         email |-> IF new_email # None /\ i = index
                   THEN CHOOSE e \in new_email : TRUE ELSE users[i].email]]

\* the fields handle_update_user assigns at user_index
update_user_fields(users, index, new_name, new_email) ==
    [users EXCEPT
        ![index] = [id |-> @.id,
                    name |-> IF new_name # None
                             THEN CHOOSE n \in new_name : TRUE ELSE @.name,
                    email |-> IF new_email # None
                              THEN CHOOSE e \in new_email : TRUE ELSE @.email]]

\* handle_update_user from the index lookup to File::create
handle_update_user_apply(self, new_name, new_email) ==
    /\ proc[self].pc = "found"
    /\ proc[self].op = "handle_update_user"
    /\ LET p == proc[self]
           index == Located(p)
       IN  IF index = 0
           THEN /\ proc' = [proc EXCEPT ![self] = Panicked(p.op, p.path)]
                /\ fs' = fs
           ELSE BeginSave(self,
                    [p EXCEPT !.index = index, !.query = NoQuery,
                              !.new = [NoArgs EXCEPT !.name = new_name,
                                                     !.email = new_email],
                              !.mem = update_user_fields(p.mem, index,
                                                         new_name, new_email)])
    /\ UNCHANGED <<configDir, live>>

(* -------------------------------- delete -------------------------------- *)

handle_delete_user(self, query) ==
    /\ proc[self].pc = "idle"
    /\ proc' = [proc EXCEPT ![self] =
                  ResolveChecked("handle_delete_user", UsersPath, query)]
    /\ UNCHANGED <<fs, configDir, live>>

handle_delete_video(self, query) ==
    /\ proc[self].pc = "idle"
    /\ proc' = [proc EXCEPT ![self] =
                  ResolveChecked("handle_delete_video", HomeVideosPath, query)]
    /\ UNCHANGED <<fs, configDir, live>>

\* a delete handler from the index lookup to its prompt
delete_prompt(self) ==
    /\ proc[self].pc = "found"
    /\ proc[self].op \in {"handle_delete_user", "handle_delete_video"}
    /\ LET p == proc[self]
           index == Located(p)
       IN  proc' = [proc EXCEPT ![self] =
                      IF index = 0 THEN Panicked(p.op, p.path)
                      ELSE [p EXCEPT !.pc = "confirm", !.index = index,
                                     !.query = NoQuery]]
    /\ UNCHANGED <<fs, configDir, live>>

(* ----------------------------- video update ----------------------------- *)

handle_update_video(self, query) ==
    /\ proc[self].pc = "idle"
    /\ proc' = [proc EXCEPT ![self] =
                  ResolveChecked("handle_update_video", HomeVideosPath, query)]
    /\ UNCHANGED <<fs, configDir, live>>

\* an update that gives the video another id
update_video_fields_new_id(videos, index, new_name, new_views) ==
    [videos EXCEPT
        ![index] = [id |-> CHOOSE id \in Ids : id # @.id,
                    name |-> IF new_name # None
                             THEN CHOOSE n \in new_name : TRUE ELSE @.name,
                    views |-> @.views]]

\* the fields handle_update_video assigns at video_index: the name only,
\* the `Some(views)` arm asks for the confirmation and assigns nothing
update_video_fields(videos, index, new_name, new_views) ==
    [videos EXCEPT
        ![index] = [id |-> @.id,
                    name |-> IF new_name # None
                             THEN CHOOSE n \in new_name : TRUE ELSE @.name,
                    views |-> @.views]]

\* handle_update_video from the index lookup to the confirmation prompt
\* (new_views given) or to File::create
handle_update_video_apply(self, new_name, new_views) ==
    /\ proc[self].pc = "found"
    /\ proc[self].op = "handle_update_video"
    /\ LET p == proc[self]
           index == Located(p)
           q == [p EXCEPT !.index = index, !.query = NoQuery,
                          !.new = [NoArgs EXCEPT !.name = new_name,
                                                 !.views = new_views],
                          !.mem = update_video_fields(p.mem, index,
                                                      new_name, new_views)]
       IN  IF index = 0
           THEN /\ proc' = [proc EXCEPT ![self] = Panicked(p.op, p.path)]
                /\ fs' = fs
           ELSE IF new_views # None
           THEN /\ proc' = [proc EXCEPT ![self] = [q EXCEPT !.pc = "confirm"]]
                /\ fs' = fs
           ELSE BeginSave(self, q)
    /\ UNCHANGED <<configDir, live>>

(* ------------------------------ the prompt ------------------------------ *)

\* what one pass of the handler's prompt loop makes of the buffer
Answer(opname, input) ==
    IF opname = "handle_delete_user" THEN delete_user_prompt(input)
    ELSE confirm(input, Some(TRUE))

\* the collection a handler saves once its confirmation is given
Confirmed(p) ==
    IF p.op \in {"handle_delete_user", "handle_delete_video"}
    THEN [p EXCEPT !.mem = remove(p.mem, p.index)]
    ELSE p

\* a prompt loop whose negative answer does not return: the handler goes
\* on to File::create with the Vec as it is in memory
read_line_no_return(self, line) ==
    /\ proc[self].pc = "confirm"
    /\ LET p == [proc[self] EXCEPT !.input = @ \o line, !.line = line]
           answer == Answer(p.op, p.input)
       IN  CASE answer = "retry" ->
                  /\ proc' = [proc EXCEPT ![self] = [p EXCEPT !.input = <<>>]]
                  /\ fs' = fs
             [] answer = "false" ->
                  BeginSave(self, [p EXCEPT !.result = "cancelled"])
             [] OTHER -> BeginSave(self, Confirmed(p))
    /\ UNCHANGED <<configDir, live>>

\* `io::stdin().read_line(&mut input)` in a prompt loop and the pass of the
\* loop that follows: an invalid line empties the buffer and reads again, a
\* negative one returns, an affirmative one goes on to File::create
read_line(self, line) ==
    /\ proc[self].pc = "confirm"
    /\ LET p == [proc[self] EXCEPT !.input = @ \o line, !.line = line]
           answer == Answer(p.op, p.input)
       IN  CASE answer = "retry" ->
                  /\ proc' = [proc EXCEPT ![self] = [p EXCEPT !.input = <<>>]]
                  /\ fs' = fs
             [] answer = "false" ->
                  /\ proc' = [proc EXCEPT ![self] =
                                [p EXCEPT !.pc = "done", !.result = "cancelled"]]
                  /\ fs' = fs
             [] OTHER -> BeginSave(self, Confirmed(p))
    /\ UNCHANGED <<configDir, live>>

(* ----------------------------- view commands ---------------------------- *)

\* "videos.bc" is relative to the working directory of the invocation, which
\* is the directory $HOME/.rustflix ("config") or another one ("other")
ViewPath(cwd) == IF cwd = "config" THEN HomeVideosPath ELSE CwdVideosPath

WorkingDirs == IF configDir THEN {"config", "other"} ELSE {"other"}

\* handle_add_views up to the unwrap of the found video: the load precedes
\* the check for an empty query
handle_add_views(self, cwd, query) ==
    /\ proc[self].pc = "idle"
    /\ proc' = [proc EXCEPT ![self] =
          LET r == Resolve("handle_add_views", ViewPath(cwd), query) IN
          IF r.pc # "panicked" /\ query = NoQuery
          THEN [Start("handle_add_views", ViewPath(cwd)) EXCEPT
                  !.pc = "done", !.mem = r.mem, !.result = "no_query"]
          ELSE r]
    /\ UNCHANGED <<fs, configDir, live>>

\* `current_views + add_views.number_to_add` on u32 wraps around
wrapping_add(a, b) == (a + b) % (MaxViews + 1)

\* handle_add_views from the index lookup to File::create; an addition that
\* overflows panics in a build with overflow checks and wraps in one without
handle_add_views_apply(self, number_to_add) ==
    /\ proc[self].pc = "found"
    /\ proc[self].op = "handle_add_views"
    /\ LET p == proc[self]
           index == Located(p)
           current_views == p.mem[index].views
           q == [p EXCEPT !.index = index, !.query = NoQuery,
                          !.new = [NoArgs EXCEPT !.add = Some(number_to_add)],
                          !.mem = [p.mem EXCEPT ![index].views =
                                     wrapping_add(current_views, number_to_add)]]
       IN  IF index = 0
           THEN /\ proc' = [proc EXCEPT ![self] = Panicked(p.op, p.path)]
                /\ fs' = fs
           ELSE /\ wrapping_add(current_views, number_to_add) \in ViewVals
                /\ \/ BeginSave(self, q)
                   \/ /\ current_views + number_to_add > MaxViews
                      /\ proc' = [proc EXCEPT ![self] = Panicked(p.op, p.path)]
                      /\ fs' = fs
    /\ UNCHANGED <<configDir, live>>

\* handle_show_views
handle_show_views(self, cwd, query) ==
    /\ proc[self].pc = "idle"
    /\ proc' = [proc EXCEPT ![self] =
          LET r == Resolve("handle_show_views", ViewPath(cwd), query) IN
          IF r.pc = "panicked" THEN r
          ELSE IF query = NoQuery
          THEN [Start("handle_show_views", ViewPath(cwd)) EXCEPT
                  !.pc = "done", !.mem = r.mem, !.result = "no_query"]
          ELSE IF r.pc = "found"
          THEN [r EXCEPT !.pc = "done", !.result = "shown",
                         !.out = <<r.mem[r.outcome.ref]>>]
          ELSE r]
    /\ UNCHANGED <<fs, configDir, live>>

(* --------------------------------- list --------------------------------- *)

\* handle_list_users / handle_list_videos: clap rejects --all together with
\* a query predicate
List(opname, path, all, query) ==
    LET loaded == IF path = UsersPath THEN load_users(fs[path])
                  ELSE load_videos(fs[path])
        found == IF path = UsersPath THEN find_users(loaded.val, query)
                 ELSE find_videos(loaded.val, query)
        p == [Start(opname, path) EXCEPT !.pc = "done", !.mem = loaded.val,
                                         !.query = query]
    IN  IF ~loaded.ok THEN Panicked(opname, path)
        ELSE IF all THEN [p EXCEPT !.result = "listed_all", !.out = loaded.val]
        ELSE IF query = NoQuery THEN [p EXCEPT !.result = "no_query"]
        ELSE IF ~found.ok THEN [p EXCEPT !.result = "not_found"]
        ELSE [p EXCEPT !.result = "listed", !.out = found.val]

\* a handle_list_users that creates the file it finds missing
handle_list_users_create(self, all, query) ==
    /\ proc[self].pc = "idle"
    /\ all => query = NoQuery
    /\ proc' = [proc EXCEPT ![self] =
                  List("handle_list_users", UsersPath, all, query)]
    /\ fs' = [fs EXCEPT ![UsersPath] = IF @.exists THEN @ ELSE FileOf(<<>>)]
    /\ UNCHANGED <<configDir, live>>

handle_list_users(self, all, query) ==
    /\ proc[self].pc = "idle"
    /\ all => query = NoQuery
    /\ proc' = [proc EXCEPT ![self] =
                  List("handle_list_users", UsersPath, all, query)]
    /\ UNCHANGED <<fs, configDir, live>>

handle_list_videos(self, all, query) ==
    /\ proc[self].pc = "idle"
    /\ all => query = NoQuery
    /\ proc' = [proc EXCEPT ![self] =
                  List("handle_list_videos", HomeVideosPath, all, query)]
    /\ UNCHANGED <<fs, configDir, live>>

(* ----------------------------- specification ---------------------------- *)

CreateUser == \E self \in live, name \in Names, email \in Emails :
    handle_create_user(self, name, email)
CreateVideo == \E self \in live, name \in Names : handle_create_video(self, name)
DrawUsedId == \E self \in live : generate_valid_id_retry(self)
DrawFreeId == \E self \in live : generate_valid_id(self)
UpdateUser == \E self \in live, query \in UserQueries :
    handle_update_user(self, query)
UpdateUserApply ==
    \E self \in live, new_name \in Opt(Names), new_email \in Opt(Emails) :
        handle_update_user_apply(self, new_name, new_email)
DeleteUser == \E self \in live, query \in UserQueries :
    handle_delete_user(self, query)
DeleteVideo == \E self \in live, query \in VideoQueries :
    handle_delete_video(self, query)
DeletePrompt == \E self \in live : delete_prompt(self)
UpdateVideo == \E self \in live, query \in VideoQueries :
    handle_update_video(self, query)
UpdateVideoApply ==
    \E self \in live, new_name \in Opt(Names), new_views \in Opt(ViewVals) :
        handle_update_video_apply(self, new_name, new_views)
ReadLine == \E self \in live, line \in Lines : read_line(self, line)
AddViews == \E self \in live, cwd \in WorkingDirs, query \in VideoQueries :
    handle_add_views(self, cwd, query)
AddViewsApply == \E self \in live, number_to_add \in AddVals :
    handle_add_views_apply(self, number_to_add)
ShowViews == \E self \in live, cwd \in WorkingDirs, query \in VideoQueries :
    handle_show_views(self, cwd, query)
ListUsers == \E self \in live, all \in BOOLEAN, query \in UserQueries :
    handle_list_users(self, all, query)
ListVideos == \E self \in live, all \in BOOLEAN, query \in VideoQueries :
    handle_list_videos(self, all, query)
Save == \E self \in live : Write(self)
Stop == \E self \in live : Kill(self)
Return == \E self \in live : Exit(self)

Next ==
    \/ CreateUser
    \/ CreateVideo
    \/ DrawUsedId
    \/ DrawFreeId
    \/ UpdateUser
    \/ UpdateUserApply
    \/ DeleteUser
    \/ DeleteVideo
    \/ DeletePrompt
    \/ UpdateVideo
    \/ UpdateVideoApply
    \/ ReadLine
    \/ AddViews
    \/ AddViewsApply
    \/ ShowViews
    \/ ListUsers
    \/ ListVideos
    \/ Save
    \/ Stop
    \/ Return

Spec == Init /\ [][Next]_vars

(* ----------------------- utilities::confirm alone ----------------------- *)

\* the lines an operator may type at the prompt of utilities::confirm
ConfirmLines ==
    Lines \cup { <<"Y", "\n">>, <<"y", "E", "s", "\n">>, <<"N", "O", "\n">>,
                 <<"N", "\n">>, <<" ", "\n">>, <<"y", "n", "\n">> }

\* a call of utilities::confirm at `let mut input = "".to_string();`: heard
\* holds the lines the loop has rejected, the first MaxTries of them
Calling(default) ==
    [pc |-> "confirm", default |-> default, input |-> <<>>, line |-> <<>>,
     heard |-> <<>>, result |-> "none"]

ConfirmInit ==
    /\ fs = [p \in Paths |-> NoFile]
    /\ configDir = FALSE
    /\ live = {"p1"}
    /\ \E default \in Opt(BOOLEAN) : proc = [self \in live |-> Calling(default)]

\* a loop of confirm that gives up (returns false) once MaxTries answers
\* have been rejected
confirm_read_line_limited(self, line) ==
    /\ proc[self].pc = "confirm"
    /\ LET p == [proc[self] EXCEPT !.input = @ \o line, !.line = line]
           answer == confirm(p.input, p.default)
       IN  proc' = [proc EXCEPT ![self] =
              IF answer = "retry" /\ Len(p.heard) < MaxTries
              THEN [p EXCEPT !.input = <<>>, !.heard = Append(@, line)]
              ELSE [p EXCEPT !.pc = "returned",
                             !.result = IF answer = "retry" THEN "false"
                                        ELSE answer]]
    /\ UNCHANGED <<fs, configDir, live>>

\* one pass of the loop of utilities::confirm: read_line appends the line to
\* the buffer, the match returns or empties the buffer and loops
confirm_read_line(self, line) ==
    /\ proc[self].pc = "confirm"
    /\ LET p == [proc[self] EXCEPT !.input = @ \o line, !.line = line]
           answer == confirm(p.input, p.default)
       IN  proc' = [proc EXCEPT ![self] =
              IF answer = "retry"
              THEN [p EXCEPT !.input = <<>>,
                             !.heard = IF Len(@) < MaxTries
                                       THEN Append(@, line) ELSE @]
              ELSE [p EXCEPT !.pc = "returned", !.result = answer]]
    /\ UNCHANGED <<fs, configDir, live>>

ConfirmReadLine == \E self \in live, line \in ConfirmLines :
    confirm_read_line(self, line)

\* the operator types a line that confirm accepts
ValidAnswer == \E self \in live, line \in ConfirmLines :
    /\ confirm_read_line(self, line)
    /\ proc'[self].pc = "returned"

ConfirmNext == ConfirmReadLine

ConfirmSpec == ConfirmInit /\ [][ConfirmNext]_vars

\* the operator eventually gives an answer that confirm accepts
ConfirmLive == ConfirmSpec /\ WF_vars(ValidAnswer)

(* ------------------------ concurrent invocations ------------------------ *)

\* a videos.bc a `video create a` has left behind
OneVideo == FileOf(video_bytes(<<[id |-> 1, name |-> "a", views |-> 0]>>))

\* the operator runs two invocations of the tool at once, each of them one
\* command, in a home that has the directory $HOME/.rustflix with no
\* videos.bc or with one of one video
ConcInit ==
    /\ \E videos \in {NoFile, OneVideo} :
          fs = [p \in Paths |-> IF p = HomeVideosPath THEN videos ELSE NoFile]
    /\ configDir = TRUE
    /\ live = Procs
    /\ proc = [self \in live |-> Idle]

\* `view add --id <id>` run in the directory $HOME/.rustflix
ConcAddViews == \E self \in live, id \in Ids :
    handle_add_views(self, "config", [NoQuery EXCEPT !.id = Some(id)])

\* the commands the two invocations run: create and view add, each a load,
\* a mutation of the loaded Vec and a save
ConcNext ==
    \/ CreateUser
    \/ CreateVideo
    \/ DrawUsedId
    \/ DrawFreeId
    \/ ConcAddViews
    \/ AddViewsApply
    \/ Save

ConcSpec == ConcInit /\ [][ConcNext]_vars

(* --------------------- any users.bc that deserializes ------------------- *)

\* every Vec<User> of up to MaxLen users, those with equal users included
UserVecs == UNION {[1..n -> User] : n \in 0..MaxLen}

\* one update or delete of a user on a users.bc that deserializes, whoever
\* wrote it
LocateInit ==
    /\ \E users \in UserVecs :
          fs = [p \in Paths |-> IF p = UsersPath THEN FileOf(user_bytes(users))
                                ELSE NoFile]
    /\ configDir = TRUE
    /\ live = {"p1"}
    /\ proc = [self \in live |-> Idle]

LocateNext ==
    \/ UpdateUser
    \/ UpdateUserApply
    \/ DeleteUser
    \/ DeletePrompt

LocateSpec == LocateInit /\ [][LocateNext]_vars

(* ------------------------- creates, fair draws -------------------------- *)

\* the create commands, one invocation after the other
GenNext ==
    \/ CreateUser
    \/ CreateVideo
    \/ DrawUsedId
    \/ DrawFreeId
    \/ Save
    \/ Return

\* rng.gen_range draws uniformly: while generate_valid_id keeps drawing and
\* a free id exists, a free id is eventually drawn
GenSpec == Init /\ [][GenNext]_vars /\ WF_vars(DrawFreeId)

(* ------------------------------ properties ------------------------------ *)

UpdateOps == {"handle_update_user", "handle_update_video"}
DeleteOps == {"handle_delete_user", "handle_delete_video"}

\* the collection a file holds, as a load would decode it
Persisted(path) ==
    IF path = UsersPath THEN load_users(fs[path]) ELSE load_videos(fs[path])

PairwiseDistinctIds(records) ==
    \A i, j \in 1..Len(records) : i # j => records[i].id # records[j].id

PairwiseDistinctEmails(users) ==
    \A i, j \in 1..Len(users) : i # j => users[i].email # users[j].email

\* C1: in every reachable state, no two records of one collection file have
\* the same id (the files start absent and are changed by create, update,
\* delete and add-views commands only)
C1_UniqueIds ==
    \A path \in Paths :
        Persisted(path).ok => PairwiseDistinctIds(Persisted(path).val)

\* a create has just returned and its file holds two records
C1_Witness ==
    \E self \in live :
        /\ proc[self].pc = "done"
        /\ proc[self].result = "created"
        /\ Persisted(proc[self].path).ok
        /\ Len(Persisted(proc[self].path).val) = 2

\* C2: in every reachable state, no two records of the user file have the
\* same email
C2_UniqueEmails ==
    Persisted(UsersPath).ok => PairwiseDistinctEmails(Persisted(UsersPath).val)

\* C3: at every point of a save (from File::create on), the file holds the
\* complete previous content or the complete new collection
C3_AtomicSave ==
    \A self \in live :
        proc[self].wrote =>
            \/ fs[proc[self].path] = proc[self].old
            \/ fs[proc[self].path] = FileOf(BytesOf(proc[self]))

\* C4: when a video update with new_views = v (and an affirmative answer)
\* or new_name = n has returned successfully, the persisted record has
\* views v, and name n
C4_UpdateAppliesFields ==
    \A self \in live :
        LET p == proc[self] IN
        (p.pc = "done" /\ p.op = "handle_update_video" /\ p.result = "updated")
            => /\ Persisted(p.path).ok
               /\ p.new.views # None
                    => Persisted(p.path).val[p.index].views \in p.new.views
               /\ p.new.name # None
                    => Persisted(p.path).val[p.index].name \in p.new.name

\* the record satisfies at least one present predicate of the query
Satisfies(record, query) ==
    \/ record.id \in query.id
    \/ record.name \in query.name
    \/ (query.email # {} /\ record.email \in query.email)

Matched(records, query) ==
    {i \in 1..Len(records) : Satisfies(records[i], query)}

\* the process holds the query and what the single-target matcher made of
\* it on the collection p.mem
Resolved(p) == p.outcome.tag # "None" /\ p.query # NoQuery

\* C5: the single-target matcher returns NotFound iff no record satisfies a
\* present predicate, the one matching record iff exactly one does, and
\* Ambiguous iff more than one does; a name-only query matched by two
\* records gives name count 2, a query by an existing id alone that record
C5_Classification ==
    \A self \in live :
        LET p == proc[self]
            m == Cardinality(Matched(p.mem, p.query))
        IN  Resolved(p) =>
              /\ p.outcome.tag = "NotFound" <=> m = 0
              /\ p.outcome.tag = "Ok" <=> m = 1
              /\ p.outcome.tag = "Multiple" <=> m > 1
              /\ p.outcome.tag = "Ok" => p.outcome.ref \in Matched(p.mem, p.query)
              /\ (p.query.id = {} /\ p.query.email = {} /\ m = 2)
                    => p.outcome.name = 2 /\ p.outcome.id = 0
              /\ (p.query.name = {} /\ p.query.email = {} /\ m > 0)
                    => /\ p.outcome.tag = "Ok"
                       /\ p.mem[p.outcome.ref].id \in p.query.id

\* two records of the same name, queried by that name alone: Ambiguous
C5_Witness ==
    \E self \in live :
        LET p == proc[self] IN
        /\ Resolved(p)
        /\ p.query.id = {} /\ p.query.email = {} /\ p.query.name # {}
        /\ p.outcome.tag = "Multiple"
        /\ p.outcome.name = 2

\* C6: the counters of an Ambiguous outcome count every matched record
\* once, under the first present predicate it satisfies in the order id,
\* name, email, so that they sum to the number of matched records
C6_CountedOnce ==
    \A self \in live :
        LET p == proc[self]
            byId == {i \in 1..Len(p.mem) : p.mem[i].id \in p.query.id}
            byName == {i \in 1..Len(p.mem) :
                          p.mem[i].name \in p.query.name} \ byId
            byEmail == Matched(p.mem, p.query) \ (byId \cup byName)
        IN  (Resolved(p) /\ p.outcome.tag = "Multiple") =>
              /\ p.outcome.id = Cardinality(byId)
              /\ p.outcome.name = Cardinality(byName)
              /\ p.outcome.email = Cardinality(byEmail)
              /\ p.outcome.id + p.outcome.name + p.outcome.email
                    = Cardinality(Matched(p.mem, p.query))

\* an Ambiguous outcome with a record that satisfies the id and the name
\* predicate
C6_Witness ==
    \E self \in live :
        LET p == proc[self] IN
        /\ Resolved(p)
        /\ p.outcome.tag = "Multiple"
        /\ \E i \in 1..Len(p.mem) :
              p.mem[i].id \in p.query.id /\ p.mem[i].name \in p.query.name
        /\ p.outcome.id = 1
        /\ p.outcome.name = 1

\* C7: an update or delete whose query resolved to NotFound or Ambiguous
\* has returned, has not opened the file for writing, and the file is as it
\* was when the command started
C7_NoMatchNoWrite ==
    \A self \in live :
        LET p == proc[self] IN
        (p.op \in UpdateOps \cup DeleteOps
            /\ p.outcome.tag \in {"NotFound", "Multiple"})
          => /\ p.pc = "done"
             /\ ~p.wrote
             /\ fs[p.path] = p.old

\* a delete ended Ambiguous and an update ended NotFound, on existing files
C7_Witness ==
    \E self \in live :
        LET p == proc[self] IN
        /\ p.pc = "done"
        /\ fs[p.path].exists
        /\ \/ p.op = "handle_delete_video" /\ p.result = "ambiguous"
           \/ p.op = "handle_update_user" /\ p.result = "not_found"

\* C8: a user create whose email is already in the collection has returned
\* without a new record: the file is not opened for writing and is as it was
C8_DuplicateEmailRejected ==
    \A self \in live :
        LET p == proc[self]
            before == load_users(p.old).val
        IN  (p.op = "handle_create_user" /\ p.new.email # {}
                /\ \E i \in 1..Len(before) : before[i].email \in p.new.email)
              => /\ p.pc = "done"
                 /\ p.result = "duplicate_email"
                 /\ ~p.wrote
                 /\ fs[p.path] = p.old

C8_Witness ==
    \E self \in live :
        /\ proc[self].op = "handle_create_user"
        /\ proc[self].result = "duplicate_email"
        /\ fs[UsersPath].exists

\* the lines that answer no, yes (the default included), and end of input
DeclineLines == {<<"n", "\n">>, <<" ", "N", "o", "\n">>}
AffirmLines == {<<"y", "\n">>, <<"Y", "E", "S", "\n">>, <<"\n">>, <<>>}

\* C9: a delete whose confirmation was answered n or no has returned as
\* cancelled, has not opened the file for writing, and the file is as it was
C9_DeclineKeepsFile ==
    \A self \in live :
        LET p == proc[self] IN
        (p.op \in DeleteOps /\ p.line \in DeclineLines)
          => /\ p.pc = "done"
             /\ p.result = "cancelled"
             /\ ~p.wrote
             /\ fs[p.path] = p.old

\* a user delete and a video delete were declined
C9_Witness ==
    \E self \in live :
        LET p == proc[self] IN
        /\ p.op \in DeleteOps
        /\ p.result = "cancelled"
        /\ p.line = <<" ", "N", "o", "\n">>
        /\ Len(p.mem) = 2

\* C10: a delete does not open the file for writing before its confirmation
\* is answered; it stays at the prompt on invalid lines only; with a unique
\* match it removes the record iff the answer is y, yes or empty; and the
\* inline loop of handle_delete_user decides every line as
\* utilities::confirm with the default Some(true) does
C10_ConfirmGate ==
    \A self \in live :
        LET p == proc[self]
            after == Persisted(p.path)
            loaded == IF p.path = UsersPath THEN load_users(p.old).val
                      ELSE load_videos(p.old).val
        IN  p.op \in DeleteOps =>
              /\ p.pc \in {"found", "confirm"} => ~p.wrote /\ fs[p.path] = p.old
              /\ p.pc = "confirm"
                    => p.line = <<>> \/ p.line \notin AffirmLines \cup DeclineLines
              /\ (p.pc \in {"write", "done"} /\ p.outcome.tag = "Ok")
                    => /\ p.wrote <=> p.line \in AffirmLines
                       /\ ~p.wrote <=> p.line \in DeclineLines
                       /\ p.wrote => p.mem = remove(loaded, p.index)
                       /\ (p.wrote /\ p.pc = "done")
                            => after.ok /\ after.val = p.mem
              /\ (p.op = "handle_delete_user" /\ p.outcome.tag = "Ok")
                    => /\ (p.pc = "confirm" /\ p.line # <<>>)
                            => confirm(p.line, Some(TRUE)) = "retry"
                       /\ p.pc \in {"write", "done"}
                            => /\ p.wrote <=> confirm(p.line, Some(TRUE)) = "true"
                               /\ ~p.wrote <=> confirm(p.line, Some(TRUE)) = "false"

\* a user delete went through on the empty line, the default answer
C10_Witness ==
    \E self \in live :
        LET p == proc[self] IN
        /\ p.op = "handle_delete_user"
        /\ p.pc = "done"
        /\ p.result = "deleted"
        /\ p.line = <<"\n">>

\* the collection the handler loaded when it started
Loaded(p) ==
    IF p.path = UsersPath THEN load_users(p.old).val ELSE load_videos(p.old).val

\* the value of a field after a sparse update: the provided one, or else the
\* prior one
Sparse(given, prior) == IF given = None THEN {prior} ELSE given

\* C11: after an update has returned, the persisted collection differs from
\* the loaded one in the matched record only; that record keeps its id and
\* every field for which no new value was provided (with only a new name
\* given, only its name differs), and a provided name or email is the new one
C11_SparseUpdate ==
    \A self \in live :
        LET p == proc[self]
            before == Loaded(p)
            after == Persisted(p.path)
        IN  (p.pc = "done" /\ p.op \in UpdateOps /\ p.result = "updated")
              => /\ after.ok
                 /\ Len(after.val) = Len(before)
                 /\ \A i \in 1..Len(before) :
                        i # p.index => after.val[i] = before[i]
                 /\ after.val[p.index].id = before[p.index].id
                 /\ after.val[p.index].name
                        \in Sparse(p.new.name, before[p.index].name)
                 /\ p.op = "handle_update_user"
                        => after.val[p.index].email
                              \in Sparse(p.new.email, before[p.index].email)
                 /\ (p.op = "handle_update_video" /\ p.new.views = None)
                        => after.val[p.index].views = before[p.index].views

\* a user update with a new name only has renamed one of two users
C11_Witness ==
    \E self \in live :
        LET p == proc[self] IN
        /\ p.pc = "done" /\ p.op = "handle_update_user" /\ p.result = "updated"
        /\ p.new.name # None /\ p.new.email = None
        /\ Len(Loaded(p)) = 2
        /\ Persisted(p.path).ok
        /\ Persisted(p.path).val[p.index].name # Loaded(p)[p.index].name

\* C12: a command that reported the missing query has neither read nor
\* written its collection file
C12_NoQueryNoFileAccess ==
    \A self \in live :
        LET p == proc[self] IN
        p.result = "no_query"
            => /\ ~p.read
               /\ ~p.wrote
               /\ fs[p.path] = p.old

CreateOps == {"handle_create_user", "handle_create_video"}

\* C13: the id generate_valid_id returned to a create handler (the id of the
\* record the handler pushed) is the id of no record of the collection the
\* handler gave it
C13_FreshId ==
    \A self \in live :
        LET p == proc[self]
            given == Loaded(p)
        IN  (p.op \in CreateOps /\ p.wrote)
              => /\ Len(p.mem) = Len(given) + 1
                 /\ SubSeq(p.mem, 1, Len(given)) = given
                 /\ \A i \in 1..Len(given) : given[i].id # p.mem[Len(p.mem)].id

\* generate_valid_id returned an id for a collection that holds a record
C13_Witness ==
    \E self \in live :
        LET p == proc[self] IN
        /\ p.op \in CreateOps /\ p.wrote
        /\ Len(Loaded(p)) = 1
        /\ Len(p.mem) = 2

\* the lines that say yes, say no, and say nothing, in any letter case
YesAnswers ==
    {<<"y", "\n">>, <<"Y", "\n">>, <<"Y", "E", "S", "\n">>, <<"y", "E", "s", "\n">>}
NoAnswers ==
    {<<"n", "\n">>, <<"N", "\n">>, <<" ", "N", "o", "\n">>, <<"N", "O", "\n">>}
EmptyAnswers == {<<"\n">>, <<" ", "\n">>, <<>>}

\* the answer is one confirm decides on under the default
Valid(default, line) ==
    \/ line \in YesAnswers \cup NoAnswers
    \/ line \in EmptyAnswers /\ default # None

\* C14: every answer confirm has rejected was invalid (empty ones under the
\* default None included), and once it has returned, the answer it returned
\* on is valid, the result is true iff that answer is y / yes in any letter
\* case or empty under Some(true), and false iff it is n / no in any letter
\* case or empty under Some(false), whatever was rejected before
C14_FirstValidAnswer ==
    \A self \in live :
        LET p == proc[self] IN
        /\ \A k \in 1..Len(p.heard) : ~Valid(p.default, p.heard[k])
        /\ (p.pc = "confirm" /\ p.heard # <<>>) => ~Valid(p.default, p.line)
        /\ p.pc = "returned" =>
              /\ Valid(p.default, p.line)
              /\ p.result = "true" <=>
                    \/ p.line \in YesAnswers
                    \/ p.line \in EmptyAnswers /\ p.default = Some(TRUE)
              /\ p.result = "false" <=>
                    \/ p.line \in NoAnswers
                    \/ p.line \in EmptyAnswers /\ p.default = Some(FALSE)

\* without a default, confirm rejected an empty line and then returned true
\* on yEs; with the default Some(false) it returned false on an empty line
C14_Witness ==
    \E self \in live :
        LET p == proc[self] IN
        /\ p.pc = "returned"
        /\ \/ /\ p.default = None
              /\ p.heard = <<<<"x", "\n">>, <<"\n">>>>
              /\ p.line = <<"y", "E", "s", "\n">>
              /\ p.result = "true"
           \/ /\ p.default = Some(FALSE)
              /\ p.heard # <<>>
              /\ p.line = <<"\n">>
              /\ p.result = "false"

\* C15: a pass of confirm's loop returns iff the line it read is a valid
\* answer, however many answers were rejected before, and under an operator
\* who eventually gives a valid answer confirm eventually returns
C15_NoRetryLimit ==
    /\ [][\A self \in live :
            proc[self].pc = "confirm"
              => (proc'[self].pc = "returned"
                    <=> Valid(proc[self].default, proc'[self].line))]_vars
    /\ <>(\A self \in live : proc[self].pc = "returned")

\* confirm returned after it had rejected MaxTries answers
C15_Witness ==
    \E self \in live :
        /\ proc[self].pc = "returned"
        /\ Len(proc[self].heard) = MaxTries

ListOps == {"handle_list_users", "handle_list_videos"}

\* C16: a list (all or by query) or view show has not opened its file for
\* writing and the file is as it was when the command started: absent if it
\* was absent, with the same content otherwise, whatever the command reported
C16_ListReadOnly ==
    \A self \in live :
        LET p == proc[self] IN
        p.op \in ListOps \cup {"handle_show_views"}
            => /\ ~p.wrote
               /\ p.pc \in {"done", "panicked"}
               /\ fs[p.path] = p.old

\* a list-all has printed the two records of its file
C16_Witness ==
    \E self \in live :
        LET p == proc[self] IN
        /\ p.op = "handle_list_videos" /\ p.result = "listed_all"
        /\ Len(p.out) = 2
        /\ fs[p.path].exists

\* the records of the collection that satisfy the query, in collection order
Select(records, query) ==
    SelectSeq(records, LAMBDA record : Satisfies(record, query))

\* C17: a list by query prints exactly the records that satisfy at least
\* one present predicate, each once and in collection order; it reports
\* that none was found iff there is none, and nothing else
C17_ListMatcher ==
    \A self \in live :
        LET p == proc[self] IN
        (p.op \in ListOps /\ p.pc = "done" /\ p.query # NoQuery)
            => /\ p.result \in {"listed", "not_found"}
               /\ p.result = "not_found" <=> Select(p.mem, p.query) = <<>>
               /\ p.out = Select(p.mem, p.query)

\* a list by id and name printed two users, one of which has both
C17_Witness ==
    \E self \in live :
        LET p == proc[self] IN
        /\ p.op = "handle_list_users" /\ p.result = "listed"
        /\ Len(p.out) = 2
        /\ \E i \in 1..Len(p.mem) :
              p.mem[i].id \in p.query.id /\ p.mem[i].name \in p.query.name

\* after is before without the record at one position
OneRemoved(before, after) ==
    /\ Len(after) + 1 = Len(before)
    /\ \E k \in 1..Len(before) :
          \A i \in 1..Len(after) :
              after[i] = IF i < k THEN before[i] ELSE before[i + 1]

\* C18: a command that has saved left every record that stays in the
\* collection with the id it had when the command loaded the file: update
\* and add-views keep the id at every position, delete leaves the other
\* records as they were, create keeps the records before the new one
C18_IdImmutable ==
    \A self \in live :
        LET p == proc[self]
            before == Loaded(p)
            after == Persisted(p.path)
        IN  (p.pc = "done" /\ p.wrote) =>
              /\ after.ok
              /\ p.op \in UpdateOps \cup {"handle_add_views"}
                    => /\ Len(after.val) = Len(before)
                       /\ \A i \in 1..Len(before) :
                              after.val[i].id = before[i].id
              /\ p.op \in DeleteOps => OneRemoved(before, after.val)
              /\ p.op \in CreateOps
                    => /\ Len(after.val) = Len(before) + 1
                       /\ \A i \in 1..Len(before) :
                              after.val[i].id = before[i].id

\* a video update and an add-views have saved a collection of two records
C18_Witness ==
    \E self \in live :
        LET p == proc[self] IN
        /\ p.pc = "done" /\ p.wrote
        /\ p.op \in {"handle_update_video", "handle_add_views"}
        /\ Len(Loaded(p)) = 2
        /\ p.index = 2

\* the commands that look records up: update, delete, list, view add / show
QueryOps ==
    UpdateOps \cup DeleteOps \cup ListOps
        \cup {"handle_add_views", "handle_show_views"}

\* C19: a command that found its file missing does not fail; a create ends
\* with a file that holds exactly the one new record, every other command
\* ends reporting no match (or the missing query, or the empty list-all) and
\* the file is still missing
C19_MissingFileIsEmpty ==
    \A self \in live :
        LET p == proc[self] IN
        (p.op # "none" /\ ~p.old.exists) =>
            /\ p.pc # "panicked"
            /\ (p.op \in CreateOps /\ p.pc = "done")
                  => /\ Persisted(p.path).ok
                     /\ Len(Persisted(p.path).val) = 1
                     /\ Persisted(p.path).val[1].name \in p.new.name
            /\ p.op \in QueryOps
                  => /\ p.pc = "done"
                     /\ p.result \in {"not_found", "no_query", "listed_all"}
                     /\ p.out = <<>>
                     /\ ~fs[p.path].exists

\* the file exists and its content does not parse as a collection
Malformed(path, file) ==
    /\ file.exists
    /\ IF path = UsersPath THEN ~deserialize_users(file.bytes).ok
       ELSE ~deserialize_videos(file.bytes).ok

\* no save into the file is under way
NoSaveInto(path) ==
    \A self \in live : ~(proc[self].pc = "write" /\ proc[self].path = path)

\* C20: a command that loaded a malformed file has panicked with the file as
\* it was, and a file that is malformed while no save into it is under way
\* has the same malformed content after every step
C20_MalformedIsFatal ==
    /\ [](\A self \in live :
            LET p == proc[self] IN
            (p.read /\ Malformed(p.path, p.old))
                => /\ p.pc = "panicked"
                   /\ ~p.wrote
                   /\ fs[p.path] = p.old)
    /\ [][\A path \in Paths :
            (Malformed(path, fs[path]) /\ NoSaveInto(path))
                => fs'[path] = fs[path]]_vars

\* a user create has panicked on a users.bc that holds the length header of
\* an interrupted save and nothing else
C20_Witness ==
    \E self \in live :
        LET p == proc[self] IN
        /\ p.op = "handle_create_user"
        /\ p.pc = "panicked"
        /\ Malformed(p.path, p.old)
        /\ Len(p.old.bytes) > 0

\* what a save of the collection writes into the file at path
Saved(path, records) ==
    IF path = UsersPath THEN user_bytes(records) ELSE video_bytes(records)

\* C21: after a save, a load of the file yields the saved records in their
\* order with their field values, a save of what was loaded would write the
\* bytes the file holds, and an update that is given no new value (a load
\* followed by a save) leaves the file byte-identical
C21_RoundTrip ==
    \A self \in live :
        LET p == proc[self]
            after == Persisted(p.path)
        IN  (p.pc = "done" /\ p.wrote) =>
              /\ after.ok
              /\ after.val = p.mem
              /\ fs[p.path].bytes = Saved(p.path, after.val)
              /\ (p.op = "handle_update_user" /\ p.new = NoArgs)
                    => fs[p.path] = p.old

\* an update without new values has saved again a file of two users
C21_Witness ==
    \E self \in live :
        LET p == proc[self] IN
        /\ p.pc = "done" /\ p.wrote
        /\ p.op = "handle_update_user" /\ p.new = NoArgs
        /\ Len(p.mem) = 2
        /\ p.mem[1].name # p.mem[2].name

\* both invocations loaded the same content of the same file and both have
\* saved and reported success
BothSaved(a, b) ==
    /\ a # b
    /\ proc[a].pc = "done" /\ proc[a].wrote
    /\ proc[b].pc = "done" /\ proc[b].wrote
    /\ proc[a].path = proc[b].path
    /\ proc[a].old = proc[b].old

\* C22: when two invocations loaded the same file content and both have
\* saved, both report success and the file is the collection of one of them
\* alone: of two creates it holds one new record, not two
C22_LostUpdate ==
    \A a, b \in live :
        BothSaved(a, b) =>
            /\ proc[a].result \in {"created", "added"}
            /\ proc[b].result \in {"created", "added"}
            /\ \/ fs[proc[a].path] = FileOf(BytesOf(proc[a]))
               \/ fs[proc[a].path] = FileOf(BytesOf(proc[b]))
            /\ (proc[a].op \in CreateOps /\ proc[b].op \in CreateOps)
                  => Len(Persisted(proc[a].path).val) = Len(Loaded(proc[a])) + 1

\* two user creates have both reported success and the file holds the user
\* of the second writer only
C22_Witness ==
    \E a, b \in live :
        /\ BothSaved(a, b)
        /\ proc[a].op = "handle_create_user" /\ proc[a].result = "created"
        /\ proc[b].op = "handle_create_user" /\ proc[b].result = "created"
        /\ fs[UsersPath] = FileOf(BytesOf(proc[b]))
        /\ \A i \in 1..Len(Persisted(UsersPath).val) :
              Persisted(UsersPath).val[i] # proc[a].mem[Len(proc[a].mem)]

ViewOps == {"handle_add_views", "handle_show_views"}

\* C23: a view show or view add by the id of a video that the file of the
\* video commands holds finds that video, and a view add that has reported
\* success has saved the video with its new views into the file that video
\* list reads
C23_SharedVideoCollection ==
    \A self \in live :
        LET p == proc[self]
            home == Persisted(HomeVideosPath)
        IN  /\ ( /\ p.op \in ViewOps /\ p.pc \in {"found", "done"}
                 /\ p.query.id # None /\ p.query.name = None
                 /\ home.ok
                 /\ \E i \in 1..Len(home.val) : home.val[i].id \in p.query.id )
                  => /\ p.outcome.tag = "Ok"
                     /\ p.mem[p.outcome.ref].id \in p.query.id
            /\ (p.op = "handle_add_views" /\ p.pc = "done" /\ p.result = "added")
                  => /\ home.ok
                     /\ \E i \in 1..Len(home.val) : home.val[i] = p.mem[p.index]

\* C24: a video update that was declined at the views confirmation has not
\* opened the file for writing: the file is as it was loaded and its record
\* keeps the old name and the old views, while the Vec in memory has the new
\* name
C24_DeclinedUpdate ==
    \A self \in live :
        LET p == proc[self] IN
        (p.op = "handle_update_video" /\ p.new.views # None
            /\ p.line \in DeclineLines)
          => /\ p.pc = "done"
             /\ p.result = "cancelled"
             /\ ~p.wrote
             /\ fs[p.path] = p.old
             /\ Persisted(p.path).val[p.index] = Loaded(p)[p.index]
             /\ p.mem[p.index].name \in Sparse(p.new.name, Loaded(p)[p.index].name)

\* an update to another name and other views was declined
C24_Witness ==
    \E self \in live :
        LET p == proc[self] IN
        /\ p.op = "handle_update_video" /\ p.result = "cancelled"
        /\ p.new.views # None /\ p.new.name # None
        /\ p.mem[p.index].name # Loaded(p)[p.index].name
        /\ Persisted(p.path).val[p.index].name = Loaded(p)[p.index].name

\* C25: after a unique match the position of the matched record is found and
\* is the index of the record the matcher returned, so no handler panics on
\* it; the update has changed no other slot and the delete is about to
\* remove that slot; in every users.bc, those with equal users included
C25_Relocation ==
    \A self \in live :
        LET p == proc[self] IN
        /\ p.pc # "panicked"
        /\ p.pc = "found"
              => /\ p.outcome.ref \in 1..Len(p.mem)
                 /\ Satisfies(p.mem[p.outcome.ref], p.query)
                 /\ Located(p) = p.outcome.ref
        /\ p.pc \in {"confirm", "write"}
              => /\ p.index = p.outcome.ref
                 /\ \A i \in 1..Len(p.mem) :
                        i # p.outcome.ref => p.mem[i] = Loaded(p)[i]

\* the user behind two equal users was matched and re-located
C25_Witness ==
    \E self \in live :
        LET p == proc[self] IN
        /\ p.pc \in {"confirm", "write"}
        /\ p.index = 3
        /\ Len(Loaded(p)) = 3
        /\ Loaded(p)[1] = Loaded(p)[2]
        /\ Loaded(p)[3].name = Loaded(p)[1].name

\* C26: after a confirmed delete the persisted collection is the loaded one
\* without the matched record: the records before it are in place, those
\* after it have moved up by one, none is changed
C26_DeleteExactlyOne ==
    \A self \in live :
        LET p == proc[self]
            before == Loaded(p)
            after == Persisted(p.path)
            k == p.outcome.ref
        IN  (p.op \in DeleteOps /\ p.pc = "done" /\ p.result = "deleted")
              => /\ after.ok
                 /\ k \in 1..Len(before)
                 /\ Len(after.val) = Len(before) - 1
                 /\ \A i \in 1..Len(after.val) :
                        after.val[i] = IF i < k THEN before[i] ELSE before[i + 1]

\* the first of two videos was deleted
C26_Witness ==
    \E self \in live :
        LET p == proc[self] IN
        /\ p.op = "handle_delete_video" /\ p.pc = "done" /\ p.result = "deleted"
        /\ Len(Loaded(p)) = 2
        /\ p.outcome.ref = 1

\* C27: a view add that has saved wrote views w + n for old views w and
\* number_to_add n when w + n does not exceed the largest counter value,
\* with every other record and field unchanged, and otherwise wrote no
\* value smaller than w
C27_NoWrappedCounter ==
    \A self \in live :
        LET p == proc[self]
            before == Loaded(p)
            after == Persisted(p.path)
            w == before[p.index].views
            n == CHOOSE n \in p.new.add : TRUE
        IN  (p.op = "handle_add_views" /\ p.pc = "done" /\ p.result = "added")
              => /\ after.ok
                 /\ Len(after.val) = Len(before)
                 /\ \A i \in 1..Len(before) :
                        i # p.index => after.val[i] = before[i]
                 /\ after.val[p.index].id = before[p.index].id
                 /\ after.val[p.index].name = before[p.index].name
                 /\ w + n <= MaxViews => after.val[p.index].views = w + n
                 /\ w + n > MaxViews => after.val[p.index].views >= w

\* C28: while generate_valid_id draws and an id of the range is free, it
\* eventually returns (under fair draws); a draw that is rejected is
\* possible iff the collection holds a record; and while every id of the
\* range is in use it does not return
C28_GenerateTerminates ==
    /\ \A self \in Procs :
          (self \in live /\ proc[self].pc = "genid" /\ ~Full(proc[self].mem))
              ~> (self \in live /\ proc[self].pc # "genid")
    /\ [](\A self \in live :
            proc[self].pc = "genid"
                => (ENABLED generate_valid_id_retry(self)
                        <=> proc[self].mem # <<>>))
    /\ [][\A self \in live :
            (proc[self].pc = "genid" /\ Full(proc[self].mem))
                => proc'[self].pc = "genid"]_vars

\* generate_valid_id draws for a collection in which every id is in use
C28_Witness ==
    \E self \in live :
        /\ proc[self].pc = "genid"
        /\ Full(proc[self].mem)
        /\ Len(proc[self].mem) = Cardinality(Ids)

====
